---- MODULE Spec2Model ----
(***************************************************************************)
(* Model of the portfolio rebalancing core: Stock / StockBuilder           *)
(* (models/stock.py), Trade (models/trade.py), Portfolio / PortfolioBuilder*)
(* (models/portfolio.py), StockPriceService (services/price_service.py)    *)
(* and the refresh loop of main (main.py).                                 *)
(*                                                                         *)
(* Numbers.  Python floats are modelled by exact scaled integers: shares   *)
(* and prices are whole numbers, a weight w is the integer w * One, and a  *)
(* current allocation is a fraction rounded to 1/AllocScale.  The weight   *)
(* values are chosen away from the exact 1e-6 boundary, where the float    *)
(* sum is decided by representation error and not by the comparison.       *)
(*                                                                         *)
(* Values.  A price held in Stock.last_price is a tagged value: the        *)
(* service can hand back a str (the text typed at the manual-entry prompt) *)
(* where a float is declared, and the code stores it as it comes.          *)
(*                                                                         *)
(* Dicts.  A Python dict is a sequence of entries with distinct keys, in   *)
(* insertion order.  Strings are sequences of one-character strings.       *)
(***************************************************************************)
EXTENDS Integers, Sequences, FiniteSets, TLC

VARIABLES
    sb,            \* the StockBuilder: [_symbol, _shares, _last_price]
    stock,         \* the Stock last constructed: {} (none) or {Stock}
    constructed,   \* whether a Portfolio object exists
    holdings,      \* Portfolio.holdings: dict symbol -> Stock
    target_alloc,  \* Portfolio.target_alloc: dict symbol -> weight
    prices,        \* the dict get_current_prices returned to the last refresh
    trades,        \* the list the last get_rebalancing_trades returned
    allocs,        \* the dict the last current_allocations returned
    args,          \* the arguments of the last call
    last_op,       \* the name of the last call
    err            \* the exception the last call raised, or "none"

vars == <<sb, stock, constructed, holdings, target_alloc, prices, trades,
          allocs, args, last_op, err>>

stock_vars == <<sb, stock>>
portfolio_vars == <<constructed, holdings, target_alloc, prices, trades, allocs>>

----------------------------------------------------------------------------
(* Bounds of the model *)

MaxShares == 2
MaxPrice == 2
MaxSymLen == 1
AllocScale == 1000000

(* 1.0 and 1e-6 of Portfolio.__init__, in weight units of 1e-7 *)
One == 10000000
Tolerance == 10

Chars == {"a", "A", "B"}
Tickers == {<<"A">>, <<"B">>}

(* 0.3, 0.5, 0.5000005, 0.500002, 0.69, 0.7, 0.71, 1.0 *)
WeightValues == {3000000, 5000000, 5000005, 5000020, 6900000, 7000000,
                 7100000, 10000000}

ShareArgs == -1 .. MaxShares
PriceArgs == -1 .. MaxPrice

----------------------------------------------------------------------------
(* Python values *)

None == {}
Some(x) == {x}
The(o) == CHOOSE x \in o : TRUE

(* a float n, and a str with the given text *)
Float(n) == [type |-> "float", val |-> n, text |-> <<>>]
Str(t) == [type |-> "str", val |-> 0, text |-> t]

(* what a user may type at the manual-entry prompt *)
TypedTexts == {<<"1">>}

NoArgs == [symbol |-> <<>>, num |-> 0, h |-> <<>>, t |-> <<>>]

Abs(n) == IF n < 0 THEN -n ELSE n

(* str.upper(), character by character *)
UpperChar(c) == IF c = "a" THEN "A" ELSE c
upper(s) == [i \in 1 .. Len(s) |-> UpperChar(s[i])]

Strings == UNION {[1 .. n -> Chars] : n \in 0 .. MaxSymLen}

(* dict helpers: entries carry their key in the field symbol *)
Keys(d) == {d[i].symbol : i \in DOMAIN d}
KeyList(d) == [i \in DOMAIN d |-> d[i].symbol]
Get(d, k) == d[CHOOSE i \in DOMAIN d : d[i].symbol = k]

----------------------------------------------------------------------------
(* models/stock.py: Stock *)

(* the dataclass constructor: it stores its arguments and validates nothing *)
Stock(symbol, shares, last_price) ==
    [symbol |-> symbol, shares |-> shares, last_price |-> last_price]

update_price(s, price) == [s EXCEPT !.last_price = price]

(* n copies of a text: int * str *)
RECURSIVE Repeat(_, _)
Repeat(t, n) == IF n <= 0 THEN <<>> ELSE t \o Repeat(t, n - 1)

(* shares * last_price; with a str price this is the repeated text *)
market_value(s) ==
    IF s.last_price.type = "float"
    THEN Float(s.shares * s.last_price.val)
    ELSE Str(Repeat(s.last_price.text, s.shares))

----------------------------------------------------------------------------
(* models/stock.py: StockBuilder *)

StockBuilder_init == [_symbol |-> None, _shares |-> None, _last_price |-> 0]

with_symbol(b, symbol) == [b EXCEPT !._symbol = Some(upper(symbol))]

(* the checks of with_shares, with_price and build: TRUE when they raise *)
with_shares_unchecked(shares) == FALSE
with_shares_raises(shares) == shares < 0
with_price_raises(price) == price < 0
build_raises(b) ==
    \/ b._symbol = None \/ b._symbol = Some(<<>>)    \* not self._symbol
    \/ b._shares = None

StockBuilder_build(b) ==
    Stock(The(b._symbol), The(b._shares), Float(b._last_price))

NewStockBuilder ==
    /\ sb' = StockBuilder_init
    /\ last_op' = "StockBuilder"
    /\ args' = NoArgs
    /\ err' = "none"
    /\ UNCHANGED <<stock, portfolio_vars>>

WithSymbol ==
    \E symbol \in Strings :
        /\ sb' = with_symbol(sb, symbol)
        /\ last_op' = "with_symbol"
        /\ args' = [NoArgs EXCEPT !.symbol = symbol]
        /\ err' = "none"
        /\ UNCHANGED <<stock, portfolio_vars>>

WithShares ==
    \E shares \in ShareArgs :
        /\ IF with_shares_raises(shares)
           THEN err' = "ValueError" /\ sb' = sb
           ELSE err' = "none" /\ sb' = [sb EXCEPT !._shares = Some(shares)]
        /\ last_op' = "with_shares"
        /\ args' = [NoArgs EXCEPT !.num = shares]
        /\ UNCHANGED <<stock, portfolio_vars>>

WithPrice ==
    \E price \in PriceArgs :
        /\ IF with_price_raises(price)
           THEN err' = "ValueError" /\ sb' = sb
           ELSE err' = "none" /\ sb' = [sb EXCEPT !._last_price = price]
        /\ last_op' = "with_price"
        /\ args' = [NoArgs EXCEPT !.num = price]
        /\ UNCHANGED <<stock, portfolio_vars>>

Build ==
    /\ IF build_raises(sb)
       THEN err' = "ValueError" /\ stock' = stock
       ELSE err' = "none" /\ stock' = Some(StockBuilder_build(sb))
    /\ last_op' = "build"
    /\ args' = NoArgs
    /\ UNCHANGED <<sb, portfolio_vars>>

(* Stock(symbol, shares) called directly, without the builder *)
DirectStock ==
    \E symbol \in Strings, shares \in ShareArgs :
        /\ stock' = Some(Stock(symbol, shares, Float(0)))
        /\ last_op' = "Stock"
        /\ args' = [NoArgs EXCEPT !.symbol = symbol, !.num = shares]
        /\ err' = "none"
        /\ UNCHANGED <<sb, portfolio_vars>>

(* stock.update_price(price) on the constructed Stock; any float is taken *)
UpdatePrice ==
    \E price \in PriceArgs :
        /\ stock # None
        /\ stock' = Some(update_price(The(stock), Float(price)))
        /\ last_op' = "update_price"
        /\ args' = [NoArgs EXCEPT !.num = price]
        /\ err' = "none"
        /\ UNCHANGED <<sb, portfolio_vars>>

Init ==
    /\ sb = StockBuilder_init
    /\ stock = None
    /\ constructed = FALSE
    /\ holdings = <<>>
    /\ target_alloc = <<>>
    /\ prices = <<>>
    /\ trades = <<>>
    /\ allocs = <<>>
    /\ args = NoArgs
    /\ last_op = "start"
    /\ err = "none"

NextStock ==
    \/ NewStockBuilder
    \/ WithSymbol
    \/ WithShares
    \/ WithPrice
    \/ Build
    \/ DirectStock
    \/ UpdatePrice

SpecStock == Init /\ [][NextStock]_vars

----------------------------------------------------------------------------
(* models/portfolio.py: Portfolio.__init__ and PortfolioBuilder.build *)

RECURSIVE SumWeights(_)
SumWeights(t) == IF t = <<>> THEN 0 ELSE Head(t).weight + SumWeights(Tail(t))

(* abs(sum(target_alloc.values()) - 1.0) < 1e-6 *)
weights_sum_without_abs(t) == SumWeights(t) - One < Tolerance
weights_sum_to_one(t) == Abs(SumWeights(t) - One) < Tolerance

(* set(holdings) != set(target_alloc) *)
symbols_match(h, t) == Keys(h) = Keys(t)

Portfolio_init_raises(h, t) ==
    \/ ~ weights_sum_to_one(t)
    \/ ~ symbols_match(h, t)

PortfolioBuilder_build_raises(h, t) ==
    \/ h = <<>>
    \/ t = <<>>
    \/ Keys(h) # Keys(t)
    \/ ~ (Abs(SumWeights(t) - One) < Tolerance)
    \/ Portfolio_init_raises(h, t)

(* the dicts a caller can pass: Stocks as StockBuilder leaves them by default,
   keyed by their symbol, and weights of WeightValues *)
HoldingEntries(k) == {Stock(k, n, Float(0)) : n \in 0 .. MaxShares}
AllocEntries(k) == {[symbol |-> k, weight |-> w] : w \in WeightValues}

RECURSIVE HoldingsOver(_)
HoldingsOver(keys) ==
    {<<>>} \cup
    UNION {{<<e>> \o d : e \in HoldingEntries(k), d \in HoldingsOver(keys \ {k})}
           : k \in keys}

RECURSIVE AllocsOver(_)
AllocsOver(keys) ==
    {<<>>} \cup
    UNION {{<<e>> \o d : e \in AllocEntries(k), d \in AllocsOver(keys \ {k})}
           : k \in keys}

HoldingsDicts == HoldingsOver(Tickers)
AllocDicts == AllocsOver(Tickers)

(* Portfolio(holdings, target_alloc).  A construction that raises ends the
   run, as the try/except of main does *)
NewPortfolio ==
    /\ ~ constructed
    /\ err = "none"
    /\ \E h \in HoldingsDicts, t \in AllocDicts :
        /\ IF Portfolio_init_raises(h, t)
           THEN /\ err' = "ValueError"
                /\ UNCHANGED <<constructed, holdings, target_alloc>>
           ELSE /\ err' = "none"
                /\ constructed' = TRUE
                /\ holdings' = h
                /\ target_alloc' = t
        /\ last_op' = "Portfolio"
        /\ args' = [NoArgs EXCEPT !.h = h, !.t = t]
        /\ prices' = <<>> /\ trades' = <<>> /\ allocs' = <<>>
        /\ UNCHANGED stock_vars

(* PortfolioBuilder.build() on a builder holding the dicts h and t *)
BuilderBuild ==
    /\ ~ constructed
    /\ err = "none"
    /\ \E h \in HoldingsDicts, t \in AllocDicts :
        /\ IF PortfolioBuilder_build_raises(h, t)
           THEN /\ err' = "ValueError"
                /\ UNCHANGED <<constructed, holdings, target_alloc>>
           ELSE /\ err' = "none"
                /\ constructed' = TRUE
                /\ holdings' = h
                /\ target_alloc' = t
        /\ last_op' = "PortfolioBuilder.build"
        /\ args' = [NoArgs EXCEPT !.h = h, !.t = t]
        /\ prices' = <<>> /\ trades' = <<>> /\ allocs' = <<>>
        /\ UNCHANGED stock_vars

----------------------------------------------------------------------------
(* models/portfolio.py: total_value, current_allocations,
   get_rebalancing_trades *)

(* round(n / d), Python's built-in: to the nearest integer, a tie to the
   even one *)
RoundHalfUp(n, d) ==
    LET nn == IF d < 0 THEN -n ELSE n
        dd == Abs(d)
    IN  (2 * nn + dd) \div (2 * dd)

RoundHalfEven(n, d) ==
    LET nn == IF d < 0 THEN -n ELSE n
        dd == Abs(d)
        f == nn \div dd
        r == nn - f * dd
    IN  IF 2 * r < dd THEN f
        ELSE IF 2 * r > dd THEN f + 1
        ELSE IF f % 2 = 0 THEN f ELSE f + 1

(* sum(stock.market_value() for ...): 0 + v1 + v2 + ...; adding a str to a
   number raises TypeError *)
RECURSIVE SumValues(_, _)
SumValues(acc, h) ==
    IF h = <<>> THEN [exc |-> "none", val |-> acc]
    ELSE LET v == market_value(Head(h))
         IN  IF v.type = "str" THEN [exc |-> "TypeError", val |-> 0]
             ELSE SumValues(acc + v.val, Tail(h))

total_value(h) == SumValues(0, h)

(* market_value() / total as a float: the quotient to the nearest 1/AllocScale *)
allocation_by_shares(s, total) == RoundHalfEven(s.shares * AllocScale, total)
allocation(s, total) == RoundHalfEven(market_value(s).val * AllocScale, total)

current_allocations(h) ==
    LET total == total_value(h)
    IN  IF total.exc # "none" THEN [exc |-> total.exc, val |-> <<>>]
        ELSE IF total.val = 0
        THEN [exc |-> "none",
              val |-> [i \in DOMAIN h |-> [symbol |-> h[i].symbol, weight |-> 0]]]
        ELSE [exc |-> "none",
              val |-> [i \in DOMAIN h |->
                        [symbol |-> h[i].symbol,
                         weight |-> allocation(h[i], total.val)]]]

(* models/trade.py *)
Trade(symbol, shares) == [symbol |-> symbol, shares |-> shares]
action(trade) == IF trade.shares > 0 THEN "BUY" ELSE "SELL"

(* price == 0: the ticker is skipped *)
skip_symbol(price) == price = 0

(* round(shares_diff), with target_value = total * weight / One *)
shares_diff_int(total, weight, current_value, price) ==
    RoundHalfEven(total * weight - current_value * One, price * One)

(* abs(shares_diff_int) >= 1 *)
actionable_from_zero(n) == Abs(n) >= 0
actionable(n) == Abs(n) >= 1

(* one pass of the loop body: the trades it appends *)
rebalance_symbol_price_or_one(h, total, entry) ==
    LET s == Get(h, entry.symbol)
        current_value == market_value(s).val
        price == IF s.last_price.val = 0 THEN 1 ELSE s.last_price.val
        n == shares_diff_int(total, entry.weight, current_value, price)
    IN  IF actionable(n) THEN <<Trade(entry.symbol, n)>> ELSE <<>>

rebalance_symbol(h, total, entry) ==
    LET s == Get(h, entry.symbol)
        current_value == market_value(s).val
        price == s.last_price.val
    IN  IF skip_symbol(price) THEN <<>>
        ELSE LET n == shares_diff_int(total, entry.weight, current_value, price)
             IN  IF actionable(n) THEN <<Trade(entry.symbol, n)>> ELSE <<>>

RECURSIVE rebalance_loop(_, _, _)
rebalance_loop(h, total, t) ==
    IF t = <<>> THEN <<>>
    ELSE rebalance_symbol(h, total, Head(t)) \o rebalance_loop(h, total, Tail(t))

get_rebalancing_trades(h, t) ==
    LET total == total_value(h)
    IN  IF total.exc # "none" THEN [exc |-> total.exc, val |-> <<>>]
        ELSE [exc |-> "none", val |-> rebalance_loop(h, total.val, t)]

(* portfolio.holdings[symbol].update_price(price), any float *)
UpdateHoldingPrice ==
    \E i \in DOMAIN holdings, price \in PriceArgs :
        /\ constructed
        /\ holdings' = [holdings EXCEPT ![i] = update_price(@, Float(price))]
        /\ last_op' = "update_price"
        /\ args' = [NoArgs EXCEPT !.symbol = holdings[i].symbol, !.num = price]
        /\ err' = "none"
        /\ prices' = <<>> /\ trades' = <<>> /\ allocs' = <<>>
        /\ UNCHANGED <<constructed, target_alloc, stock_vars>>

TotalValue ==
    /\ constructed
    /\ err' = total_value(holdings).exc
    /\ last_op' = "total_value"
    /\ args' = [NoArgs EXCEPT !.num = total_value(holdings).val]
    /\ prices' = <<>> /\ trades' = <<>> /\ allocs' = <<>>
    /\ UNCHANGED <<constructed, holdings, target_alloc, stock_vars>>

CurrentAllocations ==
    /\ constructed
    /\ err' = current_allocations(holdings).exc
    /\ allocs' = current_allocations(holdings).val
    /\ last_op' = "current_allocations"
    /\ args' = NoArgs
    /\ prices' = <<>> /\ trades' = <<>>
    /\ UNCHANGED <<constructed, holdings, target_alloc, stock_vars>>

(* the shares a holding has once the trades are applied to it *)
RECURSIVE apply_trades(_, _)
apply_trades(h, ts) ==
    IF ts = <<>> THEN h
    ELSE apply_trades(
           [i \in DOMAIN h |->
              IF h[i].symbol = Head(ts).symbol
              THEN [h[i] EXCEPT !.shares = @ + Head(ts).shares] ELSE h[i]],
           Tail(ts))

GetRebalancingTradesApplying ==
    /\ constructed
    /\ err' = get_rebalancing_trades(holdings, target_alloc).exc
    /\ trades' = get_rebalancing_trades(holdings, target_alloc).val
    /\ holdings' = apply_trades(holdings, trades')
    /\ last_op' = "get_rebalancing_trades"
    /\ args' = NoArgs
    /\ prices' = <<>> /\ allocs' = <<>>
    /\ UNCHANGED <<constructed, target_alloc, stock_vars>>

GetRebalancingTrades ==
    /\ constructed
    /\ err' = get_rebalancing_trades(holdings, target_alloc).exc
    /\ trades' = get_rebalancing_trades(holdings, target_alloc).val
    /\ last_op' = "get_rebalancing_trades"
    /\ args' = NoArgs
    /\ prices' = <<>> /\ allocs' = <<>>
    /\ UNCHANGED <<constructed, holdings, target_alloc, stock_vars>>

----------------------------------------------------------------------------
(* services/price_service.py and the refresh loop of main.py *)

(* what yfinance does for one symbol: a regularMarketPrice (0 stands for a
   falsy or missing one), or an exception, after which the user types a text *)
Quote(p) == [kind |-> "price", val |-> p, text |-> <<>>]
Failure(t) == [kind |-> "error", val |-> 0, text |-> t]
Outcomes == {Quote(p) : p \in 0 .. MaxPrice} \cup {Failure(t) : t \in TypedTexts}

(* the loop body of get_current_prices: the entries it adds for one symbol *)
fetch_price(symbol, outcome) ==
    IF outcome.kind = "error"
    THEN <<[symbol |-> symbol, price |-> Str(outcome.text)]>>   \* input(...)
    ELSE IF outcome.val # 0                                     \* if current_price:
    THEN <<[symbol |-> symbol, price |-> Float(outcome.val)]>>
    ELSE <<>>

RECURSIVE fetch_from(_, _, _)
fetch_from(symbols, yf, i) ==
    IF i > Len(symbols) THEN <<>>
    ELSE fetch_price(symbols[i], yf[i]) \o fetch_from(symbols, yf, i + 1)

get_current_prices(symbols, yf) == fetch_from(symbols, yf, 1)

(* holdings[symbol].update_price(price) *)
set_price(h, symbol, price) ==
    [i \in DOMAIN h |->
        IF h[i].symbol = symbol THEN update_price(h[i], price) ELSE h[i]]

(* main.py: for symbol, price in prices.items(): ...update_price(price) *)
RECURSIVE main_update_loop(_, _)
main_update_loop(h, ps) ==
    IF ps = <<>> THEN h
    ELSE main_update_loop(set_price(h, Head(ps).symbol, Head(ps).price), Tail(ps))

(* f"{price:.2f}" raises ValueError for a str *)
format_raises(price) == price.type = "str"

(* update_portfolio_prices: update, then log the price; the log's format
   raises for a str price and ends the loop *)
RECURSIVE service_update_loop(_, _)
service_update_loop(h, ps) ==
    IF ps = <<>> THEN [exc |-> "none", val |-> h]
    ELSE LET e == Head(ps)
             h1 == IF e.symbol \in Keys(h) THEN set_price(h, e.symbol, e.price) ELSE h
         IN  IF e.symbol \in Keys(h) /\ format_raises(e.price)
             THEN [exc |-> "ValueError", val |-> h1]
             ELSE service_update_loop(h1, Tail(ps))

MainRefresh ==
    \E yf \in [DOMAIN holdings -> Outcomes] :
        /\ constructed
        /\ prices' = get_current_prices(KeyList(holdings), yf)
        /\ holdings' = main_update_loop(holdings, prices')
        /\ err' = "none"
        /\ last_op' = "main_refresh"
        /\ args' = NoArgs
        /\ trades' = <<>> /\ allocs' = <<>>
        /\ UNCHANGED <<constructed, target_alloc, stock_vars>>

UpdatePortfolioPrices ==
    \E yf \in [DOMAIN holdings -> Outcomes] :
        /\ constructed
        /\ prices' = get_current_prices(KeyList(holdings), yf)
        /\ holdings' = service_update_loop(holdings, prices').val
        /\ err' = service_update_loop(holdings, prices').exc
        /\ last_op' = "update_portfolio_prices"
        /\ args' = NoArgs
        /\ trades' = <<>> /\ allocs' = <<>>
        /\ UNCHANGED <<constructed, target_alloc, stock_vars>>

Next ==
    \/ NewPortfolio
    \/ BuilderBuild
    \/ UpdateHoldingPrice
    \/ MainRefresh
    \/ UpdatePortfolioPrices
    \/ TotalValue
    \/ CurrentAllocations
    \/ GetRebalancingTrades

Spec == Init /\ [][Next]_vars

----------------------------------------------------------------------------
(* Properties *)

Rebalanced == last_op = "get_rebalancing_trades" /\ err = "none"

Sign(n) == IF n > 0 THEN 1 ELSE IF n < 0 THEN -1 ELSE 0

(* (target_value - current_value) and last_price of a ticker, both times One *)
GapNum(symbol) ==
    total_value(holdings).val * Get(target_alloc, symbol).weight
        - Get(holdings, symbol).shares * Get(holdings, symbol).last_price.val * One
PriceDen(symbol) == Get(holdings, symbol).last_price.val * One

(* k is n/d rounded half to even: nearest, and even when n/d is a tie *)
IsTie(k, n, d) == 2 * Abs(k * d - n) = Abs(d)
NearestEven(k, n, d) ==
    /\ 2 * Abs(k * d - n) <= Abs(d)
    /\ IsTie(k, n, d) => k % 2 = 0

TradedSymbols == {trades[i].symbol : i \in DOMAIN trades}
PositionIn(d, symbol) == CHOOSE i \in DOMAIN d : d[i].symbol = symbol

(* C1: Portfolio(holdings, target_alloc) raises and leaves no Portfolio when
   the key sets differ or the weights are not within 1e-6 of 1.0, and
   otherwise constructs the Portfolio over exactly the given dicts. *)
C1_ConstructionValidated ==
    last_op = "Portfolio" =>
        IF Keys(args.h) = Keys(args.t) /\ Abs(SumWeights(args.t) - One) < Tolerance
        THEN err = "none" /\ constructed
             /\ holdings = args.h /\ target_alloc = args.t
        ELSE err = "ValueError" /\ ~ constructed
             /\ holdings = <<>> /\ target_alloc = <<>>

(* matching keys, weights summing to 0.99: rejected *)
C1_Witness ==
    /\ last_op = "Portfolio"
    /\ err = "ValueError"
    /\ Keys(args.h) = Keys(args.t)
    /\ SumWeights(args.t) = 9900000

(* C2: the list get_rebalancing_trades returns has no trade for a ticker
   whose last_price is 0, whatever its gap. *)
C2_NoTradeAtZeroPrice ==
    Rebalanced =>
        \A i \in DOMAIN holdings :
            holdings[i].last_price.val = 0 => holdings[i].symbol \notin TradedSymbols

(* a ticker priced 0 with a non-zero gap, beside one that is traded *)
C2_Witness ==
    /\ Rebalanced
    /\ trades # <<>>
    /\ \E i \in DOMAIN holdings :
          /\ holdings[i].last_price.val = 0
          /\ GapNum(holdings[i].symbol) # 0

(* C3: the sign of every returned trade's shares is the sign of
   (target_value - current_value) of its ticker. *)
C3_SignFollowsGap ==
    Rebalanced =>
        \A i \in DOMAIN trades :
            Sign(trades[i].shares) = Sign(GapNum(trades[i].symbol))

(* C3 with no negative price: the sign rule holds whenever every last_price
   is >= 0, so it fails only through the prices update_price lets in. *)
C3_SignFollowsGapNonNegative ==
    (\A i \in DOMAIN holdings : holdings[i].last_price.val >= 0)
        => C3_SignFollowsGap

(* C4: every returned trade has an integer share count of absolute value at
   least 1; no zero-share trade is made. *)
C4_NoZeroTrade ==
    \A i \in DOMAIN trades :
        /\ trades[i].shares \in Int
        /\ Abs(trades[i].shares) >= 1
        /\ trades[i].shares # 0

(* a priced ticker with a non-zero gap that rounds to no trade, beside a
   ticker that is traded *)
C4_Witness ==
    /\ Rebalanced
    /\ trades # <<>>
    /\ \E i \in DOMAIN holdings :
          /\ holdings[i].last_price.val # 0
          /\ GapNum(holdings[i].symbol) # 0
          /\ holdings[i].symbol \notin TradedSymbols

(* C5: a get_rebalancing_trades call that directly follows another returns
   the same list (and raises the same), and every call leaves the holdings,
   their prices and the target allocation as they were. *)
C5_Idempotent ==
    [][/\ (last_op = "get_rebalancing_trades" /\ last_op' = "get_rebalancing_trades")
           => (trades' = trades /\ err' = err)
       /\ last_op' = "get_rebalancing_trades"
           => /\ holdings' = holdings
              /\ target_alloc' = target_alloc
              /\ constructed' = constructed]_vars

(* a call that returned a trade for each of two tickers *)
C5_Witness ==
    /\ Rebalanced
    /\ Len(trades) = 2

(* C6: when total_value() > 0, current_allocations has one entry per holding
   ticker, in the holdings' order, and its values sum to 1.0 within the
   rounding of the divisions. *)
RECURSIVE C6_Sum(_)
C6_Sum(a) == IF a = <<>> THEN 0 ELSE Head(a).weight + C6_Sum(Tail(a))

C6_AllocationsSumToOne ==
    (last_op = "current_allocations" /\ err = "none"
        /\ total_value(holdings).val > 0) =>
        /\ KeyList(allocs) = KeyList(holdings)
        /\ Abs(C6_Sum(allocs) - AllocScale) <= Len(holdings)

(* two holdings of unequal positive value *)
C6_Witness ==
    /\ last_op = "current_allocations" /\ err = "none"
    /\ Len(allocs) = 2
    /\ allocs[1].weight > 0 /\ allocs[2].weight > allocs[1].weight

(* C7 as stated: every Stock that exists has a non-empty upper-case symbol
   and shares >= 0. *)
C7_EveryStockValid ==
    stock # None =>
        /\ The(stock).symbol # <<>>
        /\ The(stock).symbol = upper(The(stock).symbol)
        /\ The(stock).shares >= 0

(* C7 for StockBuilder: with_shares raises on a negative count and changes
   nothing; build raises and makes no Stock when the symbol is unset or empty
   or the shares are unset; a Stock it makes has a non-empty upper-case
   symbol and shares >= 0. *)
C7_BuilderValidates ==
    [][/\ (last_op' = "with_shares" /\ args'.num < 0)
           => (err' = "ValueError" /\ sb' = sb /\ stock' = stock)
       /\ last_op' = "build"
           => IF sb._symbol \in {None, Some(<<>>)} \/ sb._shares = None
              THEN err' = "ValueError" /\ stock' = stock
              ELSE /\ err' = "none"
                   /\ stock' # None
                   /\ The(stock').symbol # <<>>
                   /\ The(stock').symbol = upper(The(stock').symbol)
                   /\ The(stock').shares >= 0]_vars

(* build refused for an empty symbol, the shares being set *)
C7_Witness ==
    /\ last_op = "build"
    /\ err = "ValueError"
    /\ sb._symbol = Some(<<>>)
    /\ sb._shares # None

(* C8: a refresh leaves the price of a holding absent from the price map as
   it was, gives every holding present in it the mapped price, and leaves
   the keys and the weights alone. *)
C8_RefreshFrame ==
    [][(last_op' \in {"main_refresh", "update_portfolio_prices"}) =>
        /\ KeyList(holdings') = KeyList(holdings)
        /\ target_alloc' = target_alloc
        /\ \A i \in DOMAIN holdings :
              IF holdings[i].symbol \in Keys(prices')
              THEN holdings'[i].last_price = Get(prices', holdings[i].symbol).price
              ELSE holdings'[i].last_price = holdings[i].last_price]_vars

(* C8 for the loop of main alone: it raises nothing and satisfies the frame. *)
C8_MainRefreshFrame ==
    [][last_op' = "main_refresh" =>
        /\ err' = "none"
        /\ KeyList(holdings') = KeyList(holdings)
        /\ target_alloc' = target_alloc
        /\ \A i \in DOMAIN holdings :
              IF holdings[i].symbol \in Keys(prices')
              THEN holdings'[i].last_price = Get(prices', holdings[i].symbol).price
              ELSE holdings'[i].last_price = holdings[i].last_price]_vars

(* C9: every holding's last_price is >= 0 and its shares are >= 0. *)
C9_PriceNonNegative ==
    \A i \in DOMAIN holdings :
        /\ holdings[i].last_price.val >= 0
        /\ holdings[i].shares >= 0

(* C10: for the tickers priced other than 0, the returned trades are, in the
   order of target_alloc's keys and at most one per ticker, exactly those
   whose (target_value - current_value) / last_price rounds half-to-even to
   a non-zero integer, each with that integer as its shares. *)
C10_RoundedTrades ==
    Rebalanced =>
        /\ \A i \in DOMAIN trades :
              /\ PriceDen(trades[i].symbol) # 0
              /\ trades[i].shares # 0
              /\ NearestEven(trades[i].shares, GapNum(trades[i].symbol),
                             PriceDen(trades[i].symbol))
        /\ \A j \in DOMAIN target_alloc :
              (PriceDen(target_alloc[j].symbol) # 0
                 /\ target_alloc[j].symbol \notin TradedSymbols)
              => NearestEven(0, GapNum(target_alloc[j].symbol),
                             PriceDen(target_alloc[j].symbol))
        /\ \A i, j \in DOMAIN trades :
              i < j => PositionIn(target_alloc, trades[i].symbol)
                         < PositionIn(target_alloc, trades[j].symbol)

(* a returned trade whose quotient was a tie (such as 1.5, rounded to 2) *)
C10_Witness ==
    /\ Rebalanced
    /\ \E i \in DOMAIN trades :
          IsTie(trades[i].shares, GapNum(trades[i].symbol),
                PriceDen(trades[i].symbol))
====
